---- MODULE Spec2Model ----
(***************************************************************************)
(* A model of scraper.py: the rate-limited, retrying fetch                 *)
(* (get_html_content under @sleep_and_retry / @limits), the parser         *)
(* (parse_html_to_json), the extractor (extract_user_info) and the         *)
(* pipeline (main).                                                        *)
(*                                                                         *)
(* Time is counted in whole seconds.  Python values are records tagged by  *)
(* their type in the field ty; Python strings are sequences of characters. *)
(***************************************************************************)
EXTENDS Integers, Sequences, FiniteSets, TLC

\* ---------------------------------------------------------------- constants

CALLS == 10
PERIOD == 60
RETRY_TIMES == 3
\* the default of the parameter delay of get_html_content, in seconds
DELAY == 1
\* the timeout given to requests.get, in seconds
TIMEOUT == 10

\* ------------------------------------------------------------------- bounds

\* the longest list under "data" among the documents given to the extractor
MaxItems == 2

\* the clock is advanced by the environment in steps of TickLen seconds
TickLen == 20
\* the environment stops advancing the clock at MaxTime (sleeps still end)
MaxTime == 80
\* the number of calls of get_html_content in a behaviour that exercises the
\* limiter, and in one that exercises the retry loop
MaxCalls == 12
MaxFetches == 2

\* the threads that may call get_html_content
Procs == {1, 2}

VARIABLES
    now,          \* the clock read by the limiter (time.monotonic), seconds
    last_reset,   \* RateLimitDecorator.last_reset
    num_calls,    \* RateLimitDecorator.num_calls
    callers,      \* the threads of this behaviour, a subset of Procs
    budget,       \* the calls of get_html_content this behaviour may make
    started,      \* history: calls of get_html_content made so far
    admitLog,     \* history: the times at which the limiter admitted a call
    fpc,          \* per thread: where it is in get_html_content
    wake,         \* per thread: the time its current time.sleep ends
    attempt,      \* per thread: the loop variable attempt
    ret,          \* per thread: the value get_html_content returned
    lastBody,     \* history, per thread: the content of the last 2xx response
    outcomes,     \* history, per thread: outcome of each HTTP attempt of this call
    sleeps,       \* history, per thread: inter-attempt sleeps of this call
    naps,         \* history, per thread: the length of each of these sleeps
    getLog,       \* history: the times at which an HTTP GET was sent
    sentAt,       \* per thread: the time its current requests.get was called
    checks,       \* history, per thread: limiter checks made for this call
    callAt,       \* history, per thread: the time of the call
    admitAt,      \* history, per thread: the time the call was admitted, -1 before
    priorAtCall,  \* history, per thread: calls already admitted in the window at the call
    winEndAtCall, \* history, per thread: the end of the limiter window in force at the call
    mpc,          \* per thread: where it is in main
    html_content, \* per thread: the variable html_content of main, or the
                  \* argument of a direct call of parse_html_to_json
    runs,         \* history: runs of main started so far
    json_data,    \* per thread: the variable json_data of main, or the argument
                  \* of a direct call of extract_user_info
    error,        \* per thread: the exception the run or the direct call raised
    emitted,      \* history, per thread: the records extract_user_info logged
    stages,       \* history, per thread: the stages main invoked, in order
    prevRun       \* history, per thread: how the run of main before this one ended

limiterVars == <<now, last_reset, num_calls, callers, budget, started, admitLog>>
fetchVars == <<fpc, wake, attempt, ret, lastBody, outcomes, sleeps, naps, getLog, sentAt,
               checks, callAt, admitAt, priorAtCall, winEndAtCall>>
mainVars == <<mpc, html_content, runs, json_data, error, emitted, stages, prevRun>>
vars == <<limiterVars, fetchVars, mainVars>>

\* ------------------------------------------------------------ Python values

NoneVal == [ty |-> "none"]
BoolVal(b) == [ty |-> "bool", b |-> b]
IntVal(n) == [ty |-> "int", n |-> n]
StrVal(s) == [ty |-> "str", s |-> s]
ListVal(items) == [ty |-> "list", items |-> items]
\* a dict keeps its keys, which are strings here, in insertion order
DictVal(keys, vals) == [ty |-> "dict", keys |-> keys, vals |-> vals]
\* bytes that hold markup: a sequence of markup tokens
BytesVal(toks) == [ty |-> "bytes", toks |-> toks]
EmptyDict == DictVal(<<>>, <<>>)

\* an exception: its class, its message, and the exception that was being
\* handled when it was raised (__context__)
NoExc == [type |-> "none"]
Exc(type, msg, ctx) == [type |-> type, msg |-> msg, ctx |-> ctx]

\* the keys the program reads
K_data == <<"d", "a", "t", "a">>
K_channel == <<"c", "h", "a", "n", "n", "e", "l">>
K_user == <<"u", "s", "e", "r">>
K_id == <<"i", "d">>
K_username == <<"u", "s", "e", "r", "n", "a", "m", "e">>
K_bio == <<"b", "i", "o">>
K_instagram == <<"i", "n", "s", "t", "a", "g", "r", "a", "m">>
K_twitter == <<"t", "w", "i", "t", "t", "e", "r">>
K_youtube == <<"y", "o", "u", "t", "u", "b", "e">>
K_discord == <<"d", "i", "s", "c", "o", "r", "d">>
K_tiktok == <<"t", "i", "k", "t", "o", "k">>
K_facebook == <<"f", "a", "c", "e", "b", "o", "o", "k">>
K_profilepic == <<"p", "r", "o", "f", "i", "l", "e", "p", "i", "c">>

\* bool(v) of Python: None, False, 0 and the empty string, list, dict and
\* bytes are false
Truthy(v) ==
    CASE v.ty = "none" -> FALSE
      [] v.ty = "bool" -> v.b
      [] v.ty = "int" -> v.n # 0
      [] v.ty = "str" -> v.s # <<>>
      [] v.ty = "list" -> v.items # <<>>
      [] v.ty = "dict" -> v.keys # <<>>
      [] v.ty = "bytes" -> v.toks # <<>>

\* a is a substring of b
IsSubstring(a, b) ==
    \E i \in 0..(Len(b) - Len(a)) : SubSeq(b, i + 1, i + Len(a)) = a

\* the operator in applies to v: strings, lists and dicts
SupportsIn(v) == v.ty \in {"str", "list", "dict"}

\* key in v, for a string key: a substring of a string, an element of a
\* list, a key of a dict
Contains(v, key) ==
    CASE v.ty = "str" -> IsSubstring(key, v.s)
      [] v.ty = "list" -> \E i \in DOMAIN v.items : v.items[i] = StrVal(key)
      [] v.ty = "dict" -> \E i \in DOMAIN v.keys : v.keys[i] = key

\* d[key] of a dict d that holds key
Lookup(d, key) == d.vals[CHOOSE i \in DOMAIN d.keys : d.keys[i] = key]

\* d.get(key, default)
Get(d, key, default) == IF Contains(d, key) THEN Lookup(d, key) ELSE default

\* d[key] = val
Put(d, key, val) ==
    IF Contains(d, key)
      THEN DictVal(d.keys, [d.vals EXCEPT ![CHOOSE i \in DOMAIN d.keys : d.keys[i] = key] = val])
      ELSE DictVal(Append(d.keys, key), Append(d.vals, val))

Max(a, b) == IF a >= b THEN a ELSE b

\* ------------------------------------------------------------------ parser

\* A markup token is an opening tag, a closing tag or a run of text; the text
\* is held as the sequence of JSON lexemes it spells.
OpenTag(name) == [k |-> "open", name |-> name, lex |-> <<>>]
CloseTag(name) == [k |-> "close", name |-> name, lex |-> <<>>]
Text(lex) == [k |-> "text", name |-> "", lex |-> lex]

\* A JSON lexeme: punctuation, a literal, a number, a string, or a word that
\* is none of these.
Lx(k) == [k |-> k, n |-> 0, s |-> <<>>]
LxNum(n) == [k |-> "num", n |-> n, s |-> <<>>]
LxStr(s) == [k |-> "str", n |-> 0, s |-> s]

\* soup.body: the position of the first <body> tag, 0 if there is none
BodyAt(toks) ==
    IF \E i \in DOMAIN toks : toks[i].k = "open" /\ toks[i].name = "body"
      THEN CHOOSE i \in DOMAIN toks :
             /\ toks[i].k = "open" /\ toks[i].name = "body"
             /\ \A j \in 1..(i - 1) : ~(toks[j].k = "open" /\ toks[j].name = "body")
      ELSE 0

\* the position at which the element opened at position i ends
BodyEnd(toks, i) ==
    IF \E j \in (i + 1)..Len(toks) : toks[j].k = "close" /\ toks[j].name = "body"
      THEN CHOOSE j \in (i + 1)..Len(toks) :
             /\ toks[j].k = "close" /\ toks[j].name = "body"
             /\ \A m \in (i + 1)..(j - 1) : ~(toks[m].k = "close" /\ toks[m].name = "body")
      ELSE Len(toks) + 1

RECURSIVE TextBetween(_, _, _)
\* the text of the tokens at positions i..(j-1), concatenated
TextBetween(toks, i, j) ==
    IF i >= j THEN <<>>
    ELSE (IF toks[i].k = "text" THEN toks[i].lex ELSE <<>>) \o TextBetween(toks, i + 1, j)

\* soup.body.text
BodyText(toks) == TextBetween(toks, BodyAt(toks) + 1, BodyEnd(toks, BodyAt(toks)))

ParseFail == [ok |-> FALSE, val |-> NoneVal, next |-> 0]
ParseOk(v, next) == [ok |-> TRUE, val |-> v, next |-> next]

RECURSIVE ParseValue(_, _)
RECURSIVE ParseElems(_, _, _)
RECURSIVE ParseMembers(_, _, _)

\* the JSON value that starts at lexeme i
ParseValue(lex, i) ==
    IF i > Len(lex) THEN ParseFail
    ELSE CASE lex[i].k = "null" -> ParseOk(NoneVal, i + 1)
           [] lex[i].k = "true" -> ParseOk(BoolVal(TRUE), i + 1)
           [] lex[i].k = "false" -> ParseOk(BoolVal(FALSE), i + 1)
           [] lex[i].k = "num" -> ParseOk(IntVal(lex[i].n), i + 1)
           [] lex[i].k = "str" -> ParseOk(StrVal(lex[i].s), i + 1)
           [] lex[i].k = "[" ->
                IF i + 1 <= Len(lex) /\ lex[i + 1].k = "]"
                  THEN ParseOk(ListVal(<<>>), i + 2)
                  ELSE ParseElems(lex, i + 1, <<>>)
           [] lex[i].k = "{" ->
                IF i + 1 <= Len(lex) /\ lex[i + 1].k = "}"
                  THEN ParseOk(EmptyDict, i + 2)
                  ELSE ParseMembers(lex, i + 1, EmptyDict)
           [] OTHER -> ParseFail

\* the rest of an array whose next element starts at lexeme i
ParseElems(lex, i, acc) ==
    LET r == ParseValue(lex, i) IN
    IF ~r.ok \/ r.next > Len(lex) THEN ParseFail
    ELSE IF lex[r.next].k = "," THEN ParseElems(lex, r.next + 1, Append(acc, r.val))
    ELSE IF lex[r.next].k = "]" THEN ParseOk(ListVal(Append(acc, r.val)), r.next + 1)
    ELSE ParseFail

\* the rest of an object whose next member starts at lexeme i
ParseMembers(lex, i, acc) ==
    IF i + 1 > Len(lex) \/ lex[i].k # "str" \/ lex[i + 1].k # ":" THEN ParseFail
    ELSE LET r == ParseValue(lex, i + 2) IN
         IF ~r.ok \/ r.next > Len(lex) THEN ParseFail
         ELSE IF lex[r.next].k = ","
                THEN ParseMembers(lex, r.next + 1, Put(acc, lex[i].s, r.val))
         ELSE IF lex[r.next].k = "}"
                THEN ParseOk(Put(acc, lex[i].s, r.val), r.next + 1)
         ELSE ParseFail

\* a variant that accepts text after the value
JsonLoads_Prefix(lex) ==
    LET r == ParseValue(lex, 1) IN IF r.ok THEN r ELSE ParseFail

\* json.loads: the whole text is one JSON value
JsonLoads(lex) ==
    LET r == ParseValue(lex, 1) IN
    IF r.ok /\ r.next = Len(lex) + 1 THEN r ELSE ParseFail

\* parse_html_to_json: the value it returns, or the exception it raises again
ParseHtmlToJson(html) ==
    IF html.ty # "bytes"
      THEN [val |-> NoneVal,
            exc |-> Exc("TypeError", "object of type 'NoneType' has no len()", NoExc)]
    ELSE IF BodyAt(html.toks) = 0
      THEN [val |-> NoneVal,
            exc |-> Exc("AttributeError", "'NoneType' object has no attribute 'text'", NoExc)]
    ELSE LET r == JsonLoads(BodyText(html.toks)) IN
         IF r.ok THEN [val |-> r.val, exc |-> NoExc]
         ELSE [val |-> NoneVal, exc |-> Exc("JSONDecodeError", "json", NoExc)]

\* --------------------------------------------------------------- extractor

\* a variant of the check without the isinstance test
ShapeCheck_AnyData(doc) ==
    IF ~Truthy(doc) THEN "ValueError"
    ELSE IF ~SupportsIn(doc) THEN "TypeError"
    ELSE IF ~Contains(doc, K_data) THEN "ValueError"
    ELSE IF doc.ty # "dict" THEN "TypeError"
    ELSE "ok"

\* the check at the head of extract_user_info: "ok", or the class of the
\* exception that evaluating it raises
ShapeCheck(doc) ==
    IF ~Truthy(doc) THEN "ValueError"
    ELSE IF ~SupportsIn(doc) THEN "TypeError"
    ELSE IF ~Contains(doc, K_data) THEN "ValueError"
    ELSE IF doc.ty # "dict" THEN "TypeError"
    ELSE IF Lookup(doc, K_data).ty # "list" THEN "ValueError"
    ELSE "ok"

\* for item in v: the items a list, a string or a dict yields
Iterable(v) == v.ty \in {"list", "str", "dict"}
Iterate(v) ==
    CASE v.ty = "list" -> v.items
      [] v.ty = "str" -> [i \in DOMAIN v.s |-> StrVal(<<v.s[i]>>)]
      [] v.ty = "dict" -> [i \in DOMAIN v.keys |-> StrVal(v.keys[i])]

\* v has a method get
HasGet(v) == v.ty = "dict"

\* the body of the loop reads item without an AttributeError
ItemReadable(item) ==
    /\ HasGet(item)
    /\ HasGet(Get(item, K_channel, EmptyDict))
    /\ HasGet(Get(Get(item, K_channel, EmptyDict), K_user, EmptyDict))

\* channel_info of the loop body
ChannelInfo(item) == Get(item, K_channel, EmptyDict)

\* extracted_user_info of the loop body
ExtractedUserInfo(item) ==
    LET user_info == Get(ChannelInfo(item), K_user, EmptyDict) IN
    [user_id |-> Get(user_info, K_id, NoneVal),
     username |-> Get(user_info, K_username, NoneVal),
     bio |-> Get(user_info, K_bio, NoneVal),
     social_media |->
        [instagram |-> Get(user_info, K_instagram, NoneVal),
         twitter |-> Get(user_info, K_twitter, NoneVal),
         youtube |-> Get(user_info, K_youtube, NoneVal),
         discord |-> Get(user_info, K_discord, NoneVal),
         tiktok |-> Get(user_info, K_tiktok, NoneVal),
         facebook |-> Get(user_info, K_facebook, NoneVal)],
     profilepic |-> Get(user_info, K_profilepic, NoneVal)]

\* what the loop body logs for item: the channel and the user record
Logged(item) == [channel |-> ChannelInfo(item), user |-> ExtractedUserInfo(item)]

RECURSIVE ExtractLoop_Dedup(_, _, _)
\* a variant of the loop that passes over an element equal to the one before
ExtractLoop_Dedup(items, i, log) ==
    IF i > Len(items) THEN [log |-> log, exc |-> NoExc]
    ELSE IF ~ItemReadable(items[i])
      THEN [log |-> log,
            exc |-> Exc("AttributeError", "object has no attribute 'get'", NoExc)]
    ELSE IF i > 1 /\ items[i] = items[i - 1]
      THEN ExtractLoop_Dedup(items, i + 1, log)
    ELSE ExtractLoop_Dedup(items, i + 1, Append(log, Logged(items[i])))

RECURSIVE ExtractLoop(_, _, _)
\* the loop over json_data['data'] from position i on, log the records logged
\* so far: the records logged in all, and the exception that ended the loop
ExtractLoop(items, i, log) ==
    IF i > Len(items) THEN [log |-> log, exc |-> NoExc]
    ELSE IF ~ItemReadable(items[i])
      THEN [log |-> log,
            exc |-> Exc("AttributeError", "object has no attribute 'get'", NoExc)]
    ELSE ExtractLoop(items, i + 1, Append(log, Logged(items[i])))

\* extract_user_info: the records it logs and the exception it raises
ExtractUserInfo(doc) ==
    LET shape == ShapeCheck(doc) IN
    IF shape = "ValueError"
      THEN [log |-> <<>>,
            exc |-> Exc("ValueError", "Data extraction error: {ve}",
                        Exc("ValueError", "Invalid or missing \"data\" field in JSON data.", NoExc))]
    ELSE IF shape = "TypeError"
      THEN [log |-> <<>>,
            exc |-> Exc("ValueError", "Unexpected error during data extraction: {e}",
                        Exc("TypeError", "", NoExc))]
    ELSE IF ~Iterable(Lookup(doc, K_data))
      THEN [log |-> <<>>,
            exc |-> Exc("ValueError", "Unexpected error during data extraction: {e}",
                        Exc("TypeError", "object is not iterable", NoExc))]
    ELSE LET r == ExtractLoop(Iterate(Lookup(doc, K_data)), 1, <<>>) IN
         IF r.exc = NoExc THEN r
         ELSE [log |-> r.log,
               exc |-> Exc("ValueError", "Unexpected error during data extraction: {e}", r.exc)]

\* ---------------------------------------------------------------- limiter

\* RateLimitDecorator.__period_remaining, the clock reading t
PeriodRemaining(t) == PERIOD - (t - last_reset)

\* the window has elapsed: the wrapper resets the counter before counting
WindowElapsed(t) == PeriodRemaining(t) <= 0

\* num_calls after the wrapper has counted this call
CountedCalls(t) == (IF WindowElapsed(t) THEN 0 ELSE num_calls) + 1

\* a variant that raises one call early
OverLimit_OneEarly(t) == CountedCalls(t) >= CALLS

\* the wrapper raises RateLimitException for this call
OverLimit(t) == CountedCalls(t) > CALLS

\* the time sleep_and_retry sleeps: the period_remaining of the exception
SleepTime(t) == PeriodRemaining(t)

\* a variant without the retry: the exception ends the call
SleepAndRetry_Reraise(p, t) ==
    /\ fpc' = [fpc EXCEPT ![p] = "returned"]
    /\ UNCHANGED wake

\* sleep_and_retry catches the RateLimitException raised for thread p at time
\* t: the thread sleeps, and the wrapper of @limits is called again afterwards
SleepAndRetry(p, t) ==
    /\ fpc' = [fpc EXCEPT ![p] = "rl_sleep"]
    /\ wake' = [wake EXCEPT ![p] = t + SleepTime(t)]

\* the start of the limiter window in force for a call at time t
WindowStart(t) == IF WindowElapsed(t) THEN t ELSE last_reset

\* One pass of thread p, at time t, through the wrapper of @limits, called by
\* the wrapper of @sleep_and_retry: under the lock, reset the window if it has
\* elapsed and count the call; then either enter the function body or raise
\* RateLimitException, which sleep_and_retry answers with
\* time.sleep(period_remaining) before it calls the wrapper again.
\* n is the number of passes this call has made before.
LimitsCheck(p, t, n) ==
    /\ num_calls' = CountedCalls(t)
    /\ last_reset' = WindowStart(t)
    /\ checks' = [checks EXCEPT ![p] = n + 1]
    /\ IF OverLimit(t)
         THEN /\ SleepAndRetry(p, t)
              /\ admitAt' = [admitAt EXCEPT ![p] = -1]
              /\ UNCHANGED <<admitLog, attempt>>
         ELSE /\ fpc' = [fpc EXCEPT ![p] = "try"]
              /\ admitLog' = Append(admitLog, t)
              /\ admitAt' = [admitAt EXCEPT ![p] = t]
              /\ attempt' = [attempt EXCEPT ![p] = 0]
              /\ UNCHANGED wake

\* ------------------------------------------------------------ HTTP attempts

\* a variant that gives up one attempt early
MayRetry_OneShort(a) == a < RETRY_TIMES - 2

\* a variant that sleeps after every transient failure, the last one too
MayRetry_Always(a) == a < RETRY_TIMES

\* after a transient failure of the iteration a (0-based) the loop sleeps and
\* goes on; otherwise it gives up
MayRetry(a) == a < RETRY_TIMES - 1

\* a variant that retries every requests.RequestException
Retryable_AnyRequestException(r) == r \in {"transient", "http_error"}

\* the except clause that retries: a requests.RequestException that is not
\* the requests.HTTPError caught before it
Retryable(r) == r = "transient"

\* a variant that never returns the content
Returned_Nothing(r, b) == NoneVal

\* what the iteration returns when it returns: response.content after a 2xx
\* response, None from every except clause
Returned(r, b) == IF r = "ok" THEN b ELSE NoneVal

\* what one requests.get followed by raise_for_status can do:
\*   ok          a 2xx response
\*   http_error  requests.HTTPError from raise_for_status (4xx/5xx)
\*   transient   any other requests.RequestException (connection error,
\*               timeout after 10 s, DNS failure)
\*   unexpected  any other exception
HttpOutcomes == {"ok", "http_error", "transient", "unexpected"}

\* how long requests.get blocks: an answer at once, or the timeout
GetTimes == {0, TIMEOUT}

\* ------------------------------------------------------------------ actions

\* the clock advances
Tick ==
    /\ now + TickLen <= MaxTime
    /\ now' = now + TickLen
    /\ UNCHANGED <<last_reset, num_calls, callers, budget, started, admitLog,
                   fetchVars, mainVars>>

\* a variant that keeps the content of the call before: a thread that holds
\* a content gets it again, without a pass through the limiter or a request
EnterFetch_Cached(p) ==
    /\ p \in callers
    /\ fpc[p] \in {"idle", "returned"}
    /\ started < budget
    /\ IF fpc[p] = "returned" /\ ret[p] # NoneVal
         THEN UNCHANGED <<limiterVars, fetchVars>>
         ELSE /\ started' = started + 1
              /\ callAt' = [callAt EXCEPT ![p] = now]
              /\ priorAtCall' = [priorAtCall EXCEPT ![p] =
                     Cardinality({i \in DOMAIN admitLog : admitLog[i] >= WindowStart(now)})]
              /\ winEndAtCall' = [winEndAtCall EXCEPT ![p] = WindowStart(now) + PERIOD]
              /\ ret' = [ret EXCEPT ![p] = NoneVal]
              /\ lastBody' = [lastBody EXCEPT ![p] = NoneVal]
              /\ outcomes' = [outcomes EXCEPT ![p] = <<>>]
              /\ sleeps' = [sleeps EXCEPT ![p] = 0]
              /\ naps' = [naps EXCEPT ![p] = <<>>]
              /\ LimitsCheck(p, now, 0)
              /\ UNCHANGED <<now, callers, budget, getLog, sentAt>>

\* thread p enters get_html_content: the decorators run first
EnterFetch(p) ==
    /\ p \in callers
    /\ fpc[p] \in {"idle", "returned"}
    /\ started < budget
    /\ started' = started + 1
    /\ callAt' = [callAt EXCEPT ![p] = now]
    /\ priorAtCall' = [priorAtCall EXCEPT ![p] =
           Cardinality({i \in DOMAIN admitLog : admitLog[i] >= WindowStart(now)})]
    /\ winEndAtCall' = [winEndAtCall EXCEPT ![p] = WindowStart(now) + PERIOD]
    /\ ret' = [ret EXCEPT ![p] = NoneVal]
    /\ lastBody' = [lastBody EXCEPT ![p] = NoneVal]
    /\ outcomes' = [outcomes EXCEPT ![p] = <<>>]
    /\ sleeps' = [sleeps EXCEPT ![p] = 0]
    /\ naps' = [naps EXCEPT ![p] = <<>>]
    /\ LimitsCheck(p, now, 0)
    /\ UNCHANGED <<now, callers, budget, getLog, sentAt>>

\* thread p calls get_html_content, outside main
CallFetch(p) ==
    /\ mpc[p] = "idle"
    /\ EnterFetch(p)
    /\ UNCHANGED mainVars

\* the sleep of sleep_and_retry ends and it calls the wrapper of @limits again
RetryLimits(p) ==
    /\ fpc[p] = "rl_sleep"
    /\ now' = Max(now, wake[p])
    /\ LimitsCheck(p, now', checks[p])
    /\ UNCHANGED <<callers, budget, started, ret, lastBody, outcomes, sleeps,
                   naps, getLog, sentAt, callAt, priorAtCall, winEndAtCall, mainVars>>

\* an iteration of the loop of get_html_content begins: thread p calls
\* requests.get, which sends the GET and blocks until the answer
HttpSend(p) ==
    /\ fpc[p] = "try"
    /\ attempt[p] < RETRY_TIMES
    /\ fpc' = [fpc EXCEPT ![p] = "get"]
    /\ getLog' = Append(getLog, now)
    /\ sentAt' = [sentAt EXCEPT ![p] = now]
    /\ UNCHANGED <<limiterVars, wake, attempt, ret, lastBody, outcomes, sleeps,
                   naps, checks, callAt, admitAt, priorAtCall, winEndAtCall,
                   mainVars>>

\* requests.get of thread p ends, d seconds or more after it was called, with
\* outcome r and, for a 2xx response, content b; the rest of the iteration:
\* the function returns, or it begins time.sleep(delay)
HttpAttempt(p, r, b, d) ==
    /\ fpc[p] = "get"
    /\ now' = Max(now, sentAt[p] + d)
    /\ outcomes' = [outcomes EXCEPT ![p] = Append(@, r)]
    /\ lastBody' = [lastBody EXCEPT ![p] = IF r = "ok" THEN b ELSE @]
    /\ IF Retryable(r) /\ MayRetry(attempt[p])
         THEN /\ fpc' = [fpc EXCEPT ![p] = "retry_sleep"]
              /\ wake' = [wake EXCEPT ![p] = now' + DELAY]
              /\ sleeps' = [sleeps EXCEPT ![p] = @ + 1]
              /\ naps' = [naps EXCEPT ![p] = Append(@, DELAY)]
              /\ UNCHANGED ret
         ELSE /\ ret' = [ret EXCEPT ![p] = Returned(r, b)]
              /\ fpc' = [fpc EXCEPT ![p] = "returned"]
              /\ UNCHANGED <<wake, sleeps, naps>>
    /\ UNCHANGED <<last_reset, num_calls, callers, budget, started, admitLog,
                   attempt, getLog, sentAt, checks, callAt, admitAt,
                   priorAtCall, winEndAtCall, mainVars>>

\* time.sleep(delay) ends and the loop goes to its next iteration; a loop that
\* has run RETRY_TIMES iterations ends, and the function returns None
NextAttempt(p) ==
    /\ fpc[p] = "retry_sleep"
    /\ now' = Max(now, wake[p])
    /\ attempt' = [attempt EXCEPT ![p] = @ + 1]
    /\ fpc' = [fpc EXCEPT ![p] =
           IF attempt[p] + 1 < RETRY_TIMES THEN "try" ELSE "returned"]
    /\ UNCHANGED <<last_reset, num_calls, callers, budget, started, admitLog, wake, ret,
                   lastBody, outcomes, sleeps, naps, getLog, sentAt, checks, callAt,
                   admitAt, priorAtCall, winEndAtCall, mainVars>>

\* --------------------------------------------------------------------- main

\* the except clause of main: whatever was raised, main raises this instead
MainError(e) == Exc("ValueError", "An error occurred: {e}", e)

\* main calls get_html_content
MainFetch(p) ==
    /\ mpc[p] \in {"idle", "done"}
    /\ EnterFetch(p)
    /\ mpc' = [mpc EXCEPT ![p] = "fetch"]
    /\ runs' = runs + 1
    /\ html_content' = [html_content EXCEPT ![p] = NoneVal]
    /\ stages' = [stages EXCEPT ![p] = <<"fetch">>]
    /\ json_data' = [json_data EXCEPT ![p] = NoneVal]
    /\ error' = [error EXCEPT ![p] = NoExc]
    /\ emitted' = [emitted EXCEPT ![p] = <<>>]
    /\ prevRun' = [prevRun EXCEPT ![p] =
           IF mpc[p] = "done"
             THEN [ran |-> TRUE, stages |-> stages[p], error |-> error[p],
                   emitted |-> emitted[p], body |-> lastBody[p],
                   outcomes |-> outcomes[p]]
             ELSE @]

\* a variant of main without the test of html_content
HtmlMissing_Never(html) == FALSE

\* the tests main makes of html_content and of json_data
HtmlMissing(html) == ~Truthy(html)
JsonMissing(doc) == ~Truthy(doc)

\* get_html_content has returned: main tests html_content and calls
\* parse_html_to_json
MainParse(p) ==
    /\ mpc[p] = "fetch"
    /\ fpc[p] = "returned"
    /\ html_content' = [html_content EXCEPT ![p] = ret[p]]
    /\ IF HtmlMissing(ret[p])
         THEN /\ error' = [error EXCEPT ![p] =
                     MainError(Exc("ValueError", "Failed to retrieve HTML content.", NoExc))]
              /\ mpc' = [mpc EXCEPT ![p] = "done"]
              /\ UNCHANGED <<json_data, stages>>
         ELSE /\ stages' = [stages EXCEPT ![p] = Append(@, "parse")]
              /\ IF ParseHtmlToJson(ret[p]).exc # NoExc
                   THEN /\ error' = [error EXCEPT ![p] = MainError(ParseHtmlToJson(ret[p]).exc)]
                        /\ mpc' = [mpc EXCEPT ![p] = "done"]
                        /\ UNCHANGED json_data
                   ELSE /\ json_data' = [json_data EXCEPT ![p] = ParseHtmlToJson(ret[p]).val]
                        /\ mpc' = [mpc EXCEPT ![p] = "parsed"]
                        /\ UNCHANGED error
    /\ UNCHANGED <<limiterVars, fetchVars, runs, emitted, prevRun>>

\* a variant of main that calls get_html_content again when the document is
\* refused or extract_user_info raises
MainExtract_Refetch(p) ==
    /\ mpc[p] = "parsed"
    /\ IF JsonMissing(json_data[p]) \/ ExtractUserInfo(json_data[p]).exc # NoExc
         THEN /\ EnterFetch(p)
              /\ mpc' = [mpc EXCEPT ![p] = "fetch"]
              /\ UNCHANGED <<html_content, runs, json_data, error, emitted,
                             stages, prevRun>>
         ELSE /\ stages' = [stages EXCEPT ![p] = Append(@, "extract")]
              /\ emitted' = [emitted EXCEPT ![p] = ExtractUserInfo(json_data[p]).log]
              /\ mpc' = [mpc EXCEPT ![p] = "done"]
              /\ UNCHANGED <<limiterVars, fetchVars, html_content, runs,
                             json_data, error, prevRun>>

\* parse_html_to_json has returned: main tests json_data and calls
\* extract_user_info
MainExtract(p) ==
    /\ mpc[p] = "parsed"
    /\ IF JsonMissing(json_data[p])
         THEN /\ error' = [error EXCEPT ![p] =
                     MainError(Exc("ValueError", "Failed to parse HTML content to JSON.", NoExc))]
              /\ UNCHANGED <<emitted, stages>>
         ELSE /\ stages' = [stages EXCEPT ![p] = Append(@, "extract")]
              /\ emitted' = [emitted EXCEPT ![p] = ExtractUserInfo(json_data[p]).log]
              /\ error' = [error EXCEPT ![p] =
                     IF ExtractUserInfo(json_data[p]).exc = NoExc THEN NoExc
                     ELSE MainError(ExtractUserInfo(json_data[p]).exc)]
    /\ mpc' = [mpc EXCEPT ![p] = "done"]
    /\ UNCHANGED <<limiterVars, fetchVars, html_content, runs, json_data, prevRun>>

\* a direct call of extract_user_info with the argument json_data[p]
CallExtract(p) ==
    /\ mpc[p] = "idle"
    /\ p \in callers
    /\ emitted' = [emitted EXCEPT ![p] = ExtractUserInfo(json_data[p]).log]
    /\ error' = [error EXCEPT ![p] = ExtractUserInfo(json_data[p]).exc]
    /\ stages' = [stages EXCEPT ![p] = <<"extract">>]
    /\ mpc' = [mpc EXCEPT ![p] = "done"]
    /\ UNCHANGED <<limiterVars, fetchVars, html_content, runs, json_data, prevRun>>

\* a direct call of parse_html_to_json with the argument html_content[p]
CallParse(p) ==
    /\ mpc[p] = "idle"
    /\ p \in callers
    /\ json_data' = [json_data EXCEPT ![p] = ParseHtmlToJson(html_content[p]).val]
    /\ error' = [error EXCEPT ![p] = ParseHtmlToJson(html_content[p]).exc]
    /\ stages' = [stages EXCEPT ![p] = <<"parse">>]
    /\ mpc' = [mpc EXCEPT ![p] = "done"]
    /\ UNCHANGED <<limiterVars, fetchVars, html_content, runs, emitted, prevRun>>

\* ------------------------------------------------------------------- inputs

RECURSIVE Dumps(_)
RECURSIVE DumpsItems(_, _)
RECURSIVE DumpsMembers(_, _)

\* the JSON text of a value, as lexemes
Dumps(v) ==
    CASE v.ty = "none" -> <<Lx("null")>>
      [] v.ty = "bool" -> <<Lx(IF v.b THEN "true" ELSE "false")>>
      [] v.ty = "int" -> <<LxNum(v.n)>>
      [] v.ty = "str" -> <<LxStr(v.s)>>
      [] v.ty = "list" -> <<Lx("[")>> \o DumpsItems(v.items, 1) \o <<Lx("]")>>
      [] v.ty = "dict" -> <<Lx("{")>> \o DumpsMembers(v, 1) \o <<Lx("}")>>

DumpsItems(items, i) ==
    IF i > Len(items) THEN <<>>
    ELSE Dumps(items[i]) \o (IF i < Len(items) THEN <<Lx(",")>> ELSE <<>>)
         \o DumpsItems(items, i + 1)

DumpsMembers(d, i) ==
    IF i > Len(d.keys) THEN <<>>
    ELSE <<LxStr(d.keys[i]), Lx(":")>> \o Dumps(d.vals[i])
         \o (IF i < Len(d.keys) THEN <<Lx(",")>> ELSE <<>>)
         \o DumpsMembers(d, i + 1)

\* <html><body>text</body></html>
Page(lex) ==
    BytesVal(<<OpenTag("html"), OpenTag("body"), Text(lex),
               CloseTag("body"), CloseTag("html")>>)

SeqsUpTo(S, n) == UNION {[1..k -> S] : k \in 0..n}

User1 == DictVal(<<K_id, K_username>>, <<StrVal(<<"1">>), StrVal(<<"a">>)>>)
User2 == DictVal(<<K_id, K_bio, K_twitter>>,
                 <<IntVal(2), StrVal(<<"b">>), StrVal(<<"t">>)>>)
Item(user) == DictVal(<<K_channel>>, <<DictVal(<<K_user>>, <<user>>)>>)

Leaves ==
    {NoneVal, BoolVal(TRUE), BoolVal(FALSE), IntVal(0), IntVal(7), StrVal(<<>>),
     StrVal(K_data), StrVal(<<"x">> \o K_data \o <<"y">>), StrVal(<<"n", "o">>)}

SampleUsers == {EmptyDict, User1, User2, NoneVal, StrVal(<<"u">>)}

SampleChannels ==
    {DictVal(<<K_user>>, <<u>>) : u \in SampleUsers}
      \cup {EmptyDict, NoneVal, ListVal(<<>>)}

SampleItems ==
    {DictVal(<<K_channel>>, <<c>>) : c \in SampleChannels}
      \cup {EmptyDict, NoneVal, IntVal(1), StrVal(K_channel), ListVal(<<>>)}

DataValues ==
    Leaves \cup {EmptyDict, DictVal(<<K_data>>, <<ListVal(<<>>)>>)}
      \cup {ListVal(q) : q \in SeqsUpTo(SampleItems, MaxItems)}

\* the documents given to extract_user_info
Docs ==
    Leaves
      \cup {ListVal(<<>>), ListVal(<<StrVal(K_data)>>), ListVal(<<IntVal(1)>>),
            EmptyDict, DictVal(<<K_user>>, <<User1>>),
            DictVal(<<K_id, K_data>>, <<IntVal(1), ListVal(<<Item(User1)>>)>>)}
      \cup {DictVal(<<K_data>>, <<d>>) : d \in DataValues}

\* the documents the upstream serves to main
ServedDocs ==
    {DictVal(<<K_data>>, <<ListVal(<<>>)>>),
     DictVal(<<K_data>>, <<ListVal(<<Item(User1)>>)>>),
     DictVal(<<K_data>>, <<ListVal(<<Item(User1), Item(User2)>>)>>),
     DictVal(<<K_data>>, <<ListVal(<<Item(User1), Item(User1)>>)>>),
     DictVal(<<K_data>>, <<ListVal(<<Item(User1), IntVal(1)>>)>>),
     DictVal(<<K_data>>, <<ListVal(<<NoneVal, Item(User1)>>)>>),
     DictVal(<<K_data>>, <<StrVal(<<"n", "o">>)>>),
     DictVal(<<K_user>>, <<User1>>),
     EmptyDict, ListVal(<<>>), NoneVal, IntVal(0), IntVal(7),
     BoolVal(FALSE), StrVal(<<>>),
     StrVal(<<"x">> \o K_data \o <<"y">>)}

\* the contents the upstream serves: pages whose body text is a document,
\* a page whose body text is the two words not json, a document without any
\* markup around it, and no content at all
Bodies ==
    {Page(Dumps(d)) : d \in ServedDocs}
      \cup {Page(<<Lx("word"), Lx("word")>>),
            BytesVal(<<Text(Dumps(DictVal(<<K_data>>, <<ListVal(<<>>)>>)))>>),
            BytesVal(<<>>)}

\* the documents whose JSON text is given to parse_html_to_json
ParseDocs ==
    Leaves
      \cup {EmptyDict, ListVal(<<>>), ListVal(<<IntVal(1), NoneVal>>),
            ListVal(<<ListVal(<<>>), EmptyDict>>), User1, User2, Item(User2),
            DictVal(<<K_data>>, <<ListVal(<<>>)>>),
            DictVal(<<K_data>>, <<ListVal(<<Item(User1)>>)>>),
            DictVal(<<K_data>>, <<ListVal(<<Item(User1), Item(User2)>>)>>),
            DictVal(<<K_id, K_data>>, <<IntVal(1), StrVal(<<"n", "o">>)>>)}

\* texts that are not JSON: no text, the two words not json, an object or
\* an array cut short, a comma before the end, two values, a key without a
\* value, a key that is no string, a member outside an object
BadTexts ==
    {<<>>,
     <<Lx("word"), Lx("word")>>,
     <<Lx("{")>>,
     <<Lx("]")>>,
     <<Lx("["), LxNum(1)>>,
     <<Lx("["), LxNum(1), Lx(","), Lx("]")>>,
     <<LxNum(1), LxNum(1)>>,
     <<Lx("{"), LxStr(K_id), Lx("}")>>,
     <<Lx("{"), LxNum(1), Lx(":"), LxNum(1), Lx("}")>>,
     <<Lx("{"), LxStr(K_id), Lx(":"), LxNum(1), Lx(","), Lx("}")>>,
     <<LxStr(K_id), Lx(":"), LxNum(1)>>,
     Dumps(DictVal(<<K_data>>, <<ListVal(<<>>)>>)) \o <<Lx("}")>>}

\* pages whose body text is the text lex: a bare page; a page with a head
\* and with the text nested in the body; a body that is never closed; the
\* text in two runs; a page with text after the body
PagesOf(lex) ==
    {Page(lex),
     BytesVal(<<OpenTag("html"), OpenTag("head"), OpenTag("title"),
                Text(<<Lx("word")>>), CloseTag("title"), CloseTag("head"),
                OpenTag("body"), OpenTag("pre"), Text(lex), CloseTag("pre"),
                CloseTag("body"), CloseTag("html")>>),
     BytesVal(<<OpenTag("body"), Text(lex)>>),
     BytesVal(<<OpenTag("body"), Text(IF lex = <<>> THEN lex ELSE <<Head(lex)>>),
                Text(IF lex = <<>> THEN lex ELSE Tail(lex)), CloseTag("body")>>),
     BytesVal(<<OpenTag("body"), Text(lex), CloseTag("body"),
                Text(<<Lx("word")>>)>>)}

\* contents without a body element: nothing, text alone, text in other tags
Bodiless(lex) ==
    {BytesVal(<<>>),
     BytesVal(<<Text(lex)>>),
     BytesVal(<<OpenTag("html"), Text(lex), CloseTag("html")>>),
     BytesVal(<<OpenTag("div"), Text(lex), CloseTag("div"), CloseTag("body")>>)}

\* the contents given to parse_html_to_json
ParseInputs ==
    UNION {PagesOf(Dumps(d)) : d \in ParseDocs}
      \cup UNION {PagesOf(t) : t \in BadTexts}
      \cup UNION {Bodiless(Dumps(d)) : d \in ParseDocs}
      \cup UNION {Bodiless(t) : t \in BadTexts}

\* ----------------------------------------------------------- specifications

InitFetch ==
    /\ now = 0
    /\ last_reset = 0
    /\ num_calls = 0
    /\ started = 0
    /\ admitLog = <<>>
    /\ fpc = [p \in Procs |-> "idle"]
    /\ wake = [p \in Procs |-> 0]
    /\ attempt = [p \in Procs |-> 0]
    /\ ret = [p \in Procs |-> NoneVal]
    /\ lastBody = [p \in Procs |-> NoneVal]
    /\ outcomes = [p \in Procs |-> <<>>]
    /\ sleeps = [p \in Procs |-> 0]
    /\ naps = [p \in Procs |-> <<>>]
    /\ getLog = <<>>
    /\ sentAt = [p \in Procs |-> 0]
    /\ runs = 0
    /\ checks = [p \in Procs |-> 0]
    /\ callAt = [p \in Procs |-> 0]
    /\ admitAt = [p \in Procs |-> -1]
    /\ priorAtCall = [p \in Procs |-> 0]
    /\ winEndAtCall = [p \in Procs |-> 0]
    /\ mpc = [p \in Procs |-> "idle"]
    /\ error = [p \in Procs |-> NoExc]
    /\ emitted = [p \in Procs |-> <<>>]
    /\ stages = [p \in Procs |-> <<>>]
    /\ prevRun = [p \in Procs |->
           [ran |-> FALSE, stages |-> <<>>, error |-> NoExc, emitted |-> <<>>,
            body |-> NoneVal, outcomes |-> <<>>]]

\* no thread holds a document or a page
NoDocs ==
    /\ json_data = [p \in Procs |-> NoneVal]
    /\ html_content = [p \in Procs |-> NoneVal]

\* a sequence of calls of one thread at arbitrary times, each answered 2xx
OkBody == Page(Dumps(DictVal(<<K_data>>, <<ListVal(<<>>)>>)))

InitLimiter == InitFetch /\ NoDocs /\ callers = {1} /\ budget = MaxCalls

NextLimiter ==
    \/ Tick
    \/ \E p \in Procs : CallFetch(p)
    \/ \E p \in Procs : RetryLimits(p)
    \/ \E p \in Procs : HttpSend(p)
    \/ \E p \in Procs : HttpAttempt(p, "ok", OkBody, 0)

SpecLimiter == InitLimiter /\ [][NextLimiter]_vars

\* every time.sleep of sleep_and_retry ends
SpecLimiterFair == SpecLimiter /\ \A p \in Procs : WF_vars(RetryLimits(p))

\* a few calls of one thread, every attempt answered in any way, at once or
\* when the timeout has passed
FetchBodies == {OkBody, BytesVal(<<>>)}

InitRetry == InitFetch /\ NoDocs /\ callers = {1} /\ budget = MaxFetches

NextRetry ==
    \/ \E p \in Procs : CallFetch(p)
    \/ \E p \in Procs : HttpSend(p)
    \/ \E p \in Procs, r \in HttpOutcomes, b \in FetchBodies, d \in GetTimes :
           HttpAttempt(p, r, b, d)
    \/ \E p \in Procs : NextAttempt(p)

SpecRetry == InitRetry /\ [][NextRetry]_vars

\* runs of main, one after the other, against any upstream
InitPipeline == InitFetch /\ NoDocs /\ callers = {1} /\ budget = MaxFetches

NextPipeline ==
    \/ \E p \in Procs : MainFetch(p)
    \/ \E p \in Procs : HttpSend(p)
    \/ \E p \in Procs, r \in HttpOutcomes, b \in Bodies : HttpAttempt(p, r, b, 0)
    \/ \E p \in Procs : NextAttempt(p)
    \/ \E p \in Procs : MainParse(p)
    \/ \E p \in Procs : MainExtract(p)

SpecPipeline == InitPipeline /\ [][NextPipeline]_vars

\* extract_user_info applied to one document
InitExtract ==
    /\ InitFetch /\ callers = {1} /\ budget = 0
    /\ html_content = [p \in Procs |-> NoneVal]
    /\ json_data \in {[p \in Procs |-> IF p = 1 THEN d ELSE NoneVal] : d \in Docs}

NextExtract == \E p \in Procs : CallExtract(p)

SpecExtract == InitExtract /\ [][NextExtract]_vars

\* parse_html_to_json applied to one content
InitParse ==
    /\ InitFetch /\ callers = {1} /\ budget = 0
    /\ json_data = [p \in Procs |-> NoneVal]
    /\ html_content \in
          {[p \in Procs |-> IF p = 1 THEN h ELSE NoneVal] : h \in ParseInputs}

NextParse == \E p \in Procs : CallParse(p)

SpecParse == InitParse /\ [][NextParse]_vars

\* the threads of Procs share the limiter and call get_html_content in any
\* order, from the time the limiter was built or from a later time of its
\* window; each pass through the wrapper of @limits holds its lock
InitConc ==
    /\ last_reset = 0
    /\ now \in {0, 2 * TickLen}
    /\ num_calls = 0
    /\ started = 0
    /\ admitLog = <<>>
    /\ fpc = [p \in Procs |-> "idle"]
    /\ wake = [p \in Procs |-> 0]
    /\ attempt = [p \in Procs |-> 0]
    /\ ret = [p \in Procs |-> NoneVal]
    /\ lastBody = [p \in Procs |-> NoneVal]
    /\ outcomes = [p \in Procs |-> <<>>]
    /\ sleeps = [p \in Procs |-> 0]
    /\ naps = [p \in Procs |-> <<>>]
    /\ getLog = <<>>
    /\ sentAt = [p \in Procs |-> 0]
    /\ runs = 0
    /\ checks = [p \in Procs |-> 0]
    /\ callAt = [p \in Procs |-> 0]
    /\ admitAt = [p \in Procs |-> -1]
    /\ priorAtCall = [p \in Procs |-> 0]
    /\ winEndAtCall = [p \in Procs |-> 0]
    /\ mpc = [p \in Procs |-> "idle"]
    /\ error = [p \in Procs |-> NoExc]
    /\ emitted = [p \in Procs |-> <<>>]
    /\ stages = [p \in Procs |-> <<>>]
    /\ prevRun = [p \in Procs |->
           [ran |-> FALSE, stages |-> <<>>, error |-> NoExc, emitted |-> <<>>,
            body |-> NoneVal, outcomes |-> <<>>]]
    /\ NoDocs /\ callers = Procs /\ budget = MaxCalls

NextConc ==
    \/ \E p \in Procs : CallFetch(p)
    \/ \E p \in Procs : RetryLimits(p)
    \/ \E p \in Procs : HttpSend(p)
    \/ \E p \in Procs : HttpAttempt(p, "ok", OkBody, 0)

SpecConc == InitConc /\ [][NextConc]_vars

\* one thread makes call after call at arbitrary times, and every attempt of
\* every call fails transiently
InitBurst == InitFetch /\ NoDocs /\ callers = {1} /\ budget = MaxCalls

NextBurst ==
    \/ Tick
    \/ \E p \in Procs : CallFetch(p)
    \/ \E p \in Procs : RetryLimits(p)
    \/ \E p \in Procs : HttpSend(p)
    \/ \E p \in Procs : HttpAttempt(p, "transient", OkBody, 0)
    \/ \E p \in Procs : NextAttempt(p)

SpecBurst == InitBurst /\ [][NextBurst]_vars

\* ------------------------------------------------------------------- claims

Last(q) == q[Len(q)]

\* the calls admitted at a time in the window of length PERIOD that starts at t
InWindow(log, t) == {i \in DOMAIN log : log[i] >= t /\ log[i] < t + PERIOD}

\* C1: no window of length PERIOD holds more than CALLS admitted calls,
\* wherever the window starts.
C1_NoWindowOverLimit ==
    \A i \in DOMAIN admitLog : Cardinality(InWindow(admitLog, admitLog[i])) <= CALLS

\* the call of thread p has been admitted by the limiter
Admitted(p) == fpc[p] \in {"try", "get", "retry_sleep", "returned"} /\ admitAt[p] # -1

\* C2: a call made when fewer than CALLS calls were admitted in the limiter
\* window is admitted at the time of the call; a call made when CALLS calls
\* were admitted in the window waits at least until the window ends.
C2_FirstCallsFreeNextWaits ==
    \A p \in Procs :
        Admitted(p) =>
            /\ priorAtCall[p] < CALLS => admitAt[p] = callAt[p]
            /\ priorAtCall[p] >= CALLS =>
                   admitAt[p] - callAt[p] >= winEndAtCall[p] - callAt[p]

\* the call after CALLS calls in one window has waited for the window's end
C2_Witness ==
    \E p \in Procs :
        /\ Admitted(p)
        /\ priorAtCall[p] = CALLS
        /\ callAt[p] < winEndAtCall[p]
        /\ admitAt[p] >= winEndAtCall[p]
        /\ Len(admitLog) = CALLS + 1
        /\ \A i \in 1..CALLS : admitLog[i] < winEndAtCall[p]

\* C3: a call that the limiter holds back is admitted later, and no call
\* comes back to its caller without having been admitted.
C3_EventuallyAdmitted ==
    /\ \A p \in Procs : (fpc[p] = "rl_sleep") ~> (fpc[p] = "try")
    /\ [](\A p \in Procs : fpc[p] = "returned" => admitAt[p] # -1)

\* a call was held back, slept, and was admitted
C3_Witness == \E p \in Procs : checks[p] >= 2 /\ fpc[p] = "try" /\ admitAt[p] > callAt[p]

\* C4: a 2xx response is the last attempt of its call, only transient
\* failures come before it, and the call returns the content of that response.
C4_SuccessAfterTransients ==
    \A p \in Procs : \A i \in DOMAIN outcomes[p] :
        outcomes[p][i] = "ok" =>
            /\ i = Len(outcomes[p])
            /\ i <= RETRY_TIMES
            /\ \A j \in 1..(i - 1) : outcomes[p][j] = "transient"
            /\ fpc[p] = "returned"
            /\ ret[p].ty = "bytes"
            /\ ret[p] = lastBody[p]

\* two transient failures, then a 2xx response whose content is returned
C4_Witness ==
    \E p \in Procs :
        /\ outcomes[p] = <<"transient", "transient", "ok">>
        /\ fpc[p] = "returned"
        /\ ret[p] = OkBody

\* C5: no call makes more than RETRY_TIMES attempts, and a call all of whose
\* attempts failed transiently returns None after exactly RETRY_TIMES attempts.
C5_ExhaustedAfterRetryTimes ==
    \A p \in Procs :
        /\ Len(outcomes[p]) <= RETRY_TIMES
        /\ (/\ fpc[p] = "returned"
            /\ outcomes[p] # <<>>
            /\ \A i \in DOMAIN outcomes[p] : outcomes[p][i] = "transient")
           => Len(outcomes[p]) = RETRY_TIMES /\ ret[p] = NoneVal

\* a call has returned None after RETRY_TIMES transient failures
C5_Witness ==
    \E p \in Procs :
        /\ fpc[p] = "returned"
        /\ Len(outcomes[p]) = RETRY_TIMES
        /\ \A i \in DOMAIN outcomes[p] : outcomes[p][i] = "transient"
        /\ ret[p] = NoneVal

\* C6: an HTTP status error is the last attempt of its call: the call returns
\* None at once, having slept only after the transient failures before it.
C6_HttpErrorNotRetried ==
    \A p \in Procs : \A i \in DOMAIN outcomes[p] :
        outcomes[p][i] = "http_error" =>
            /\ i = Len(outcomes[p])
            /\ fpc[p] = "returned"
            /\ ret[p] = NoneVal
            /\ sleeps[p] = i - 1

\* a status error on the first attempt: one attempt, no sleep
C6_Witness ==
    \E p \in Procs :
        /\ outcomes[p] = <<"http_error">>
        /\ fpc[p] = "returned"
        /\ sleeps[p] = 0

\* C7: main invokes fetch, parse, extract in this order, each at most once;
\* after a failed fetch it invokes neither parse nor extract, and after a
\* failed parse it does not invoke extract.
C7_StagesInOrderShortCircuit ==
    \A p \in Procs :
        /\ stages[p] \in {<<>>, <<"fetch">>, <<"fetch", "parse">>,
                          <<"fetch", "parse", "extract">>}
        /\ mpc[p] = "done" /\ ret[p] = NoneVal => stages[p] = <<"fetch">>
        /\ (mpc[p] = "done" /\ ret[p] # NoneVal /\ ret[p].toks # <<>>
              /\ ParseHtmlToJson(ret[p]).exc # NoExc)
           => stages[p] = <<"fetch", "parse">>

\* a run whose fetch succeeded and whose parse failed has not extracted
C7_Witness ==
    \E p \in Procs :
        /\ mpc[p] = "done"
        /\ Last(outcomes[p]) = "ok"
        /\ ParseHtmlToJson(ret[p]).exc.type = "JSONDecodeError"
        /\ stages[p] = <<"fetch", "parse">>
        /\ error[p] # NoExc

\* what an error shows of itself: its class and its message
Shown(e) == <<e.type, e.msg>>

\* C8: the error that ends a run tells the stage that failed: two failed runs
\* that failed in different stages end with errors that differ.
C8_ErrorNamesStage ==
    \A p \in Procs :
        (/\ mpc[p] = "done" /\ error[p] # NoExc
         /\ prevRun[p].ran /\ prevRun[p].error # NoExc
         /\ Last(stages[p]) # Last(prevRun[p].stages))
        => Shown(error[p]) # Shown(prevRun[p].error)

\* C9: a run that ends in failure has logged no user record.
C9_AllOrNothing ==
    \A p \in Procs : mpc[p] = "done" /\ error[p] # NoExc => emitted[p] = <<>>

\* doc is an object that holds a list under the key data
HasDataList(doc) ==
    /\ doc.ty = "dict"
    /\ \E i \in DOMAIN doc.keys : doc.keys[i] = K_data /\ doc.vals[i].ty = "list"

\* C10: extract_user_info raises an error and logs nothing for every
\* document that is not an object holding a list under the key data.
C10_InvalidShapeRejected ==
    \A p \in Procs :
        mpc[p] = "done" /\ ~HasDataList(json_data[p]) =>
            error[p] # NoExc /\ error[p].type = "ValueError" /\ emitted[p] = <<>>

\* the call was given a string that contains the text data, and has failed
C10_Witness ==
    \E p \in Procs :
        /\ mpc[p] = "done"
        /\ json_data[p] = StrVal(<<"x">> \o K_data \o <<"y">>)
        /\ error[p] # NoExc

\* the list under the key data of a document that holds one
DataOf(doc) == doc.vals[CHOOSE i \in DOMAIN doc.keys : doc.keys[i] = K_data].items

\* C11: once a document holds a list under data, extraction raises no error,
\* whatever the elements of the list are.
C11_ElementsNeverFatal ==
    \A p \in Procs :
        mpc[p] = "done" /\ HasDataList(json_data[p]) => error[p] = NoExc

\* v holds the key
HasKey(v, key) == v.ty = "dict" /\ \E i \in DOMAIN v.keys : v.keys[i] = key

\* the value under key of an object, None where v is no object or lacks key
At(v, key) ==
    IF HasKey(v, key) THEN v.vals[CHOOSE i \in DOMAIN v.keys : v.keys[i] = key]
    ELSE NoneVal

\* an element is well formed: an object whose channel, if any, is an object
\* whose user, if any, is an object
WellFormed(item) ==
    /\ item.ty = "dict"
    /\ HasKey(item, K_channel) =>
          /\ At(item, K_channel).ty = "dict"
          /\ HasKey(At(item, K_channel), K_user) =>
                At(At(item, K_channel), K_user).ty = "dict"

\* the leaf of an element at channel, user, key
Leaf(item, key) == At(At(At(item, K_channel), K_user), key)

\* the record rec is the one built from the element item
RecordOf(rec, item) ==
    /\ rec.channel = IF HasKey(item, K_channel) THEN At(item, K_channel) ELSE EmptyDict
    /\ rec.user.user_id = Leaf(item, K_id)
    /\ rec.user.username = Leaf(item, K_username)
    /\ rec.user.bio = Leaf(item, K_bio)
    /\ rec.user.social_media.instagram = Leaf(item, K_instagram)
    /\ rec.user.social_media.twitter = Leaf(item, K_twitter)
    /\ rec.user.social_media.youtube = Leaf(item, K_youtube)
    /\ rec.user.social_media.discord = Leaf(item, K_discord)
    /\ rec.user.social_media.tiktok = Leaf(item, K_tiktok)
    /\ rec.user.social_media.facebook = Leaf(item, K_facebook)
    /\ rec.user.profilepic = Leaf(item, K_profilepic)

\* C12: for a list of n well-formed elements under data, extraction logs n
\* records and raises nothing; the i-th record is built from the i-th element.
C12_OneRecordPerElementInOrder ==
    \A p \in Procs :
        (/\ mpc[p] = "done"
         /\ HasDataList(json_data[p])
         /\ \A i \in DOMAIN DataOf(json_data[p]) : WellFormed(DataOf(json_data[p])[i]))
        => /\ error[p] = NoExc
           /\ Len(emitted[p]) = Len(DataOf(json_data[p]))
           /\ \A i \in DOMAIN emitted[p] : RecordOf(emitted[p][i], DataOf(json_data[p])[i])

\* two equal elements have given two equal records
C12_Witness ==
    \E p \in Procs :
        /\ mpc[p] = "done"
        /\ json_data[p] = DictVal(<<K_data>>, <<ListVal(<<Item(User1), Item(User1)>>)>>)
        /\ Len(emitted[p]) = 2
        /\ emitted[p][1] = emitted[p][2]
        /\ emitted[p][1].user.user_id = StrVal(<<"1">>)
        /\ emitted[p][1].user.bio = NoneVal

\* C13: parse_html_to_json returns the value that the body text spells when
\* the text is JSON; it raises JSONDecodeError when there is a body whose
\* text is not JSON, and another error when there is no body; when it raises
\* it returns no document.
C13_ParseOutcomes ==
    \A p \in Procs :
        mpc[p] = "done" =>
            /\ \A d \in ParseDocs :
                   html_content[p] \in PagesOf(Dumps(d)) =>
                       error[p] = NoExc /\ json_data[p] = d
            /\ \A t \in BadTexts :
                   html_content[p] \in PagesOf(t) =>
                       error[p] # NoExc /\ error[p].type = "JSONDecodeError"
            /\ (html_content[p].ty = "bytes" /\
                  \A i \in DOMAIN html_content[p].toks :
                      ~(html_content[p].toks[i].k = "open"
                          /\ html_content[p].toks[i].name = "body"))
               => error[p] # NoExc /\ error[p].type \notin {"JSONDecodeError"}
            /\ error[p] # NoExc => json_data[p] = NoneVal

\* the page of the specification, <html><body>{"data":[]}</body></html>, has
\* given the document {"data": []}
C13_Witness ==
    \E p \in Procs :
        /\ mpc[p] = "done"
        /\ html_content[p] = Page(<<Lx("{"), LxStr(K_data), Lx(":"), Lx("["), Lx("]"), Lx("}")>>)
        /\ json_data[p] = DictVal(<<K_data>>, <<ListVal(<<>>)>>)
        /\ error[p] = NoExc

\* C14: a run of main that gets the responses the run before it got ends as
\* that run ended: the same records, the same error, the same stages; every
\* run makes its own call of get_html_content, with its own pass through the
\* limiter and its own requests.
C14_RunsEqualAndIndependent ==
    /\ runs = started
    /\ \A p \in Procs :
        mpc[p] = "done" =>
            /\ Len(outcomes[p]) >= 1
            /\ Len(admitLog) = runs
            /\ Len(getLog) >= runs
            /\ (/\ prevRun[p].ran
                /\ prevRun[p].outcomes = outcomes[p]
                /\ prevRun[p].body = lastBody[p])
               => /\ emitted[p] = prevRun[p].emitted
                  /\ error[p] = prevRun[p].error
                  /\ stages[p] = prevRun[p].stages

\* two runs got the same page with one user: both gave the same record, and
\* two calls were admitted and two requests sent
C14_Witness ==
    \E p \in Procs :
        /\ mpc[p] = "done"
        /\ prevRun[p].ran
        /\ runs = 2
        /\ outcomes[p] = <<"ok">> /\ prevRun[p].outcomes = <<"ok">>
        /\ lastBody[p] = prevRun[p].body
        /\ lastBody[p] = Page(Dumps(DictVal(<<K_data>>, <<ListVal(<<Item(User1)>>)>>)))
        /\ Len(emitted[p]) = 1
        /\ emitted[p] = prevRun[p].emitted
        /\ Len(admitLog) = 2
        /\ Len(getLog) = 2

\* the calls admitted since the limiter window began
AdmittedInWindow == {i \in DOMAIN admitLog : admitLog[i] >= last_reset}

\* C15: with several threads on the one limiter, no window of length PERIOD
\* holds more than CALLS admitted calls, and the limiter's count is the
\* number of calls admitted in its current window.
C15_ConcurrentAdmissions ==
    /\ \A i \in DOMAIN admitLog : Cardinality(InWindow(admitLog, admitLog[i])) <= CALLS
    /\ num_calls = Cardinality(AdmittedInWindow)

\* the wrapper of @limits has raised RateLimitException for the call of p
RateLimited(p) == fpc[p] = "rl_sleep" \/ checks[p] >= 2

\* C16: a call for which RateLimitException was raised is not retried: it
\* makes no further pass through the limiter and no HTTP attempt, and what
\* it returns is None.
C16_RateLimitNotRetried ==
    \A p \in Procs :
        RateLimited(p) =>
            /\ checks[p] = 1
            /\ outcomes[p] = <<>>
            /\ fpc[p] = "returned" => ret[p] = NoneVal

\* C17: in a run of main, a document that parse_html_to_json has returned
\* is given to extract_user_info, whatever the document is, and the run does
\* not fail with main's error of a failed parse.
C17_ParsedDocumentsReachExtract ==
    \A p \in Procs :
        (/\ mpc[p] = "done"
         /\ Len(stages[p]) >= 2
         /\ ParseHtmlToJson(html_content[p]).exc = NoExc)
        => /\ Last(stages[p]) = "extract"
           /\ error[p] # NoExc =>
                  error[p].ctx.msg # "Failed to parse HTML content to JSON."

\* the attempts of the call of p are those its transient failures allow: every
\* attempt but the last failed transiently, and a last attempt that failed
\* transiently is the attempt RETRY_TIMES
AttemptsByTransients(p) ==
    /\ Len(outcomes[p]) \in 1..RETRY_TIMES
    /\ \A i \in 1..(Len(outcomes[p]) - 1) : outcomes[p][i] = "transient"
    /\ Last(outcomes[p]) = "transient" => Len(outcomes[p]) = RETRY_TIMES

\* C18: every run of main calls get_html_content once; once the call has
\* returned, whatever parse_html_to_json and extract_user_info do, no call
\* and no HTTP attempt is made, and the attempts of the run are those the
\* transient failures of its call allowed.
C18_OneFetchPerRun ==
    /\ [](/\ runs = started
          /\ \A p \in Procs :
                 mpc[p] \in {"parsed", "done"} =>
                     fpc[p] = "returned" /\ AttemptsByTransients(p))
    /\ [][\A p \in Procs :
              mpc[p] \in {"parsed", "done"} /\ mpc'[p] \in {"parsed", "done"} =>
                  /\ started' = started
                  /\ getLog' = getLog
                  /\ outcomes'[p] = outcomes[p]]_vars

\* a run whose second attempt got a page that is not JSON: the parse failed,
\* and the run ended with its one call and its two attempts
C18_Witness ==
    \E p \in Procs :
        /\ mpc[p] = "done"
        /\ outcomes[p] = <<"transient", "ok">>
        /\ stages[p] = <<"fetch", "parse">>
        /\ error[p] # NoExc
        /\ runs = 1 /\ started = 1
        /\ Len(getLog) = 2

\* the GETs the current call of p has sent: one for each attempt that has
\* ended, and the one that is waiting for its answer
Sends(p) == Len(outcomes[p]) + (IF fpc[p] = "get" THEN 1 ELSE 0)

\* the times at which the current call of p, the only caller, sent its GETs
AttemptTimes(p) == SubSeq(getLog, Len(getLog) - Sends(p) + 1, Len(getLog))

\* C19: every sleep of the retry loop has the length delay; a call that has
\* returned after a attempts has slept a - 1 times, once between every two
\* consecutive attempts, which are at least delay apart, and not after its
\* last attempt, whatever that attempt's outcome was.
C19_OneDelayBetweenAttempts ==
    \A p \in Procs :
        /\ Len(naps[p]) = sleeps[p]
        /\ \A i \in DOMAIN naps[p] : naps[p][i] = DELAY
        /\ fpc[p] \in {"try", "get", "retry_sleep"} => sleeps[p] = Len(outcomes[p])
        /\ fpc[p] = "returned" => sleeps[p] = Len(outcomes[p]) - 1
        /\ fpc[p] # "idle" =>
               \A i \in 1..(Sends(p) - 1) :
                   AttemptTimes(p)[i + 1] - AttemptTimes(p)[i] >= DELAY

\* a call has returned after RETRY_TIMES transient failures and
\* RETRY_TIMES - 1 sleeps of length delay
C19_Witness ==
    \E p \in Procs :
        /\ fpc[p] = "returned"
        /\ outcomes[p] = <<"transient", "transient", "transient">>
        /\ naps[p] = <<DELAY, DELAY>>
        /\ AttemptTimes(p)[3] - AttemptTimes(p)[1] = 2 * (TIMEOUT + DELAY)

\* the calls of get_html_content that the limiter has not admitted yet
HeldBack == {p \in Procs : fpc[p] = "rl_sleep"}

\* C20: every call is admitted by the limiter once, however many attempts it
\* makes, so there are at most RETRY_TIMES requests for every admitted call,
\* and no window of length PERIOD holds more than CALLS * RETRY_TIMES requests.
C20_OneAdmissionPerCall ==
    /\ Len(admitLog) = started - Cardinality(HeldBack)
    /\ Len(getLog) <= RETRY_TIMES * Len(admitLog)
    /\ \A i \in DOMAIN getLog :
           Cardinality(InWindow(getLog, getLog[i])) <= CALLS * RETRY_TIMES

====
